---- MODULE Spec2Model ----
(***************************************************************************)
(* Brick settling and structural support (src/aoc/2023/22.py).             *)
(*                                                                         *)
(* A Position is the tuple <<x, y, z>>, a Brick is the tuple               *)
(* <<start, end>> of two Positions, None is the empty tuple.  Python's     *)
(* 0-based tuple index i is index i + 1 here.  A line of the input text is *)
(* the pair of Positions written on it, in the order written.              *)
(***************************************************************************)
EXTENDS Integers, Sequences, FiniteSets

VARIABLES text, pc, queue, parsed, distance, brick, settled_bricks,
          answer1, answer2, relisted, resettled,
          a_line, a_brick, a_other, hits

\* The state of a run of part1 and part2 on an input text.
run_vars == <<text, pc, queue, parsed, distance, brick, settled_bricks,
              answer1, answer2, relisted, resettled>>

\* The state of one Brick under its own methods.
brick_vars == <<a_line, a_brick, a_other, hits>>

vars == <<run_vars, brick_vars>>

\* ------------------------------------------------------------------ bounds
MaxX == 1
MaxY == 1
MaxZ == 2
MaxBricks == 3

\* ------------------------------------------------------- Position and Brick
None == <<>>

Position(x, y, z) == <<x, y, z>>

Brick(start, end) == <<start, end>>

\* Python's tuple order, which sorted() uses on Positions.
PositionLess(p, q) ==
    \/ p[1] < q[1]
    \/ p[1] = q[1] /\ p[2] < q[2]
    \/ p[1] = q[1] /\ p[2] = q[2] /\ p[3] < q[3]

\* from_str without the sort: the ends as written.
from_str_as_written(line) == Brick(line[1], line[2])

from_str(line) ==
    IF PositionLess(line[2], line[1])
    THEN Brick(line[2], line[1])
    ELSE Brick(line[1], line[2])

move_down(self, n) ==
    IF self[1][3] > n /\ self[2][3] > n
    THEN Brick(Position(self[1][1], self[1][2], self[1][3] - n),
               Position(self[2][1], self[2][2], self[2][3] - n))
    ELSE None

\* intersects comparing the two ends of self with the start of other only.
intersects_one_sided(self, other) ==
    \E index \in 0..2 :
        LET xi == index + 1
            yi == ((index + 1) % 3) + 1
            zi == ((index + 2) % 3) + 1
        IN  /\ self[1][xi] = self[2][xi]
            /\ self[2][xi] = other[1][xi]
            /\ other[1][xi] = other[2][xi]
            /\ self[2][yi] >= other[1][yi]
            /\ self[1][yi] <= other[1][yi]
            /\ self[2][zi] >= other[1][zi]
            /\ self[1][zi] <= other[1][zi]

intersects(self, other) ==
    \E index \in 0..2 :
        LET xi == index + 1
            yi == ((index + 1) % 3) + 1
            zi == ((index + 2) % 3) + 1
        IN  /\ self[1][xi] = self[2][xi]
            /\ self[2][xi] = other[1][xi]
            /\ other[1][xi] = other[2][xi]
            /\ self[2][yi] >= other[1][yi]
            /\ self[1][yi] <= other[2][yi]
            /\ self[2][zi] >= other[1][zi]
            /\ self[1][zi] <= other[2][zi]

Max2(a, b) == IF a >= b THEN a ELSE b

Min2(a, b) == IF a <= b THEN a ELSE b

z_max(self) == Max2(self[1][3], self[2][3])

z_min(self) == Min2(self[1][3], self[2][3])

get_intersection(b, other_bricks) ==
    {other_bricks[i] : i \in {j \in DOMAIN other_bricks : intersects(b, other_bricks[j])}}

\* ------------------------------------------------------- get_settled_bricks
\* An unstable insertion: a brick goes before the bricks of equal key.
RECURSIVE InsertByZMin_unstable(_, _)
InsertByZMin_unstable(sorted, b) ==
    IF sorted = <<>> THEN <<b>>
    ELSE IF Min2(sorted[Len(sorted)][1][3], sorted[Len(sorted)][2][3]) < Min2(b[1][3], b[2][3])
         THEN Append(sorted, b)
         ELSE Append(InsertByZMin_unstable(SubSeq(sorted, 1, Len(sorted) - 1), b),
                     sorted[Len(sorted)])

\* sorted(bricks, key=lambda b: min(b.start.z, b.end.z)): a stable sort.
RECURSIVE InsertByZMin(_, _)
InsertByZMin(sorted, b) ==
    IF sorted = <<>> THEN <<b>>
    ELSE IF Min2(sorted[Len(sorted)][1][3], sorted[Len(sorted)][2][3]) <= Min2(b[1][3], b[2][3])
         THEN Append(sorted, b)
         ELSE Append(InsertByZMin(SubSeq(sorted, 1, Len(sorted) - 1), b),
                     sorted[Len(sorted)])

\* The bricks in the order of the text, not sorted.
SortedByZMin_unsorted(bricks) == bricks

RECURSIVE SortedByZMin(_)
SortedByZMin(bricks) ==
    IF bricks = <<>> THEN <<>>
    ELSE InsertByZMin(SortedByZMin(SubSeq(bricks, 1, Len(bricks) - 1)),
                      bricks[Len(bricks)])

\* The maximum with default=0.
RECURSIVE MaxZMax_default0(_)
MaxZMax_default0(settled) ==
    IF settled = <<>> THEN 0
    ELSE IF Len(settled) = 1 THEN z_max(settled[1])
    ELSE Max2(MaxZMax_default0(SubSeq(settled, 1, Len(settled) - 1)),
              z_max(settled[Len(settled)]))

\* max([settled_brick.z_max for settled_brick in settled_bricks], default=1)
RECURSIVE MaxZMax(_)
MaxZMax(settled) ==
    IF settled = <<>> THEN 1
    ELSE IF Len(settled) = 1 THEN z_max(settled[1])
    ELSE Max2(MaxZMax(SubSeq(settled, 1, Len(settled) - 1)), z_max(settled[Len(settled)]))

\* The distance without its final - 1: a jump onto the highest settled level.
Distance_overshoot(b, settled) == z_min(b) - MaxZMax(settled)

Distance(b, settled) == z_min(b) - MaxZMax(settled) - 1

\* The while condition without the intersection test: only the floor stops.
CanStepDown_to_floor(b, settled) == move_down(b, 1) # None

\* The condition of the while loop, on the brick one step lower.
CanStepDown(b, settled) ==
    /\ move_down(b, 1) # None
    /\ get_intersection(move_down(b, 1), settled) = {}

\* The while loop: step down by 1 while the lower brick exists and is free.
RECURSIVE Fall(_, _)
Fall(b, settled) ==
    IF CanStepDown(b, settled) THEN Fall(move_down(b, 1), settled) ELSE b

\* The for loop over the sorted bricks, from the settled list built so far.
RECURSIVE SettleLoop(_, _)
SettleLoop(bricks, settled) ==
    IF bricks = <<>> THEN settled
    ELSE SettleLoop(Tail(bricks),
                    Append(settled,
                           Fall(move_down(Head(bricks), Distance(Head(bricks), settled)),
                                settled)))

get_settled_bricks(t) ==
    SettleLoop(SortedByZMin([i \in DOMAIN t |-> from_str(t[i])]), <<>>)

\* ------------------------------------------------------------------- part1
\* settled_bricks[:index] + settled_bricks[index + 1:]
Others(settled, index) ==
    SubSeq(settled, 1, index - 1) \o SubSeq(settled, index + 1, Len(settled))

\* The intersection taken with the whole list, the brick itself included.
IntersectionAt_with_self(settled, index) ==
    IF move_down(settled[index], 1) = None THEN {}
    ELSE get_intersection(move_down(settled[index], 1), settled)

\* The intersection computed for the brick at index; empty when the loop
\* takes `continue`.
IntersectionAt(settled, index) ==
    IF move_down(settled[index], 1) = None THEN {}
    ELSE get_intersection(move_down(settled[index], 1), Others(settled, index))

\* Every supporter counted as critical, whatever the size of the intersection.
support_bricks_any(settled) ==
    UNION {IntersectionAt(settled, index) : index \in DOMAIN settled}

support_bricks(settled) ==
    UNION {IntersectionAt(settled, index) :
             index \in {i \in DOMAIN settled : Cardinality(IntersectionAt(settled, i)) = 1}}

part1(settled) == Len(settled) - Cardinality(support_bricks(settled))

\* ------------------------------------------------------------------- part2
\* graph[support_brick] is the list of the bricks appended to it, in the
\* order of enumerate(settled_bricks).  A key the dict lacks reads as [].
RECURSIVE SupportedBy(_, _, _)
SupportedBy(settled, support_brick, upto) ==
    IF upto = 0 THEN <<>>
    ELSE IF support_brick \in IntersectionAt(settled, upto)
         THEN Append(SupportedBy(settled, support_brick, upto - 1), settled[upto])
         ELSE SupportedBy(settled, support_brick, upto - 1)

Graph(settled) ==
    [support_brick \in UNION {IntersectionAt(settled, i) : i \in DOMAIN settled}
        |-> SupportedBy(settled, support_brick, Len(settled))]

GraphGet(graph, node) == IF node \in DOMAIN graph THEN graph[node] ELSE <<>>

RECURSIVE Occurrences(_, _)
Occurrences(next_nodes, node) ==
    IF next_nodes = <<>> THEN 0
    ELSE Occurrences(Tail(next_nodes), node) + (IF Head(next_nodes) = node THEN 1 ELSE 0)

RECURSIVE SumOccurrences(_, _, _)
SumOccurrences(graph, keys, node) ==
    IF keys = {} THEN 0
    ELSE LET k == CHOOSE k \in keys : TRUE
         IN  Occurrences(graph[k], node) + SumOccurrences(graph, keys \ {k}, node)

\* in_degree after the loop over graph.values(); a missing key reads as 0.
InDegree(graph, nodes) ==
    [node \in nodes |-> SumOccurrences(graph, DOMAIN graph, node)]

\* A pass in which a brick falls as soon as one of its supporters has fallen.
RECURSIVE Visit_first_loss(_, _)
Visit_first_loss(next_nodes, st) ==
    IF next_nodes = <<>> THEN st
    ELSE LET next_node == Head(next_nodes)
             d == st.in_degree[next_node] - 1
             dec == [st EXCEPT !.in_degree[next_node] = d]
         IN  Visit_first_loss(Tail(next_nodes),
                              [dec EXCEPT !.n_falls = @ + 1,
                                          !.stack = Append(@, next_node)])

\* for next_node in graph[node]: one pass over the list, from a state
\* [stack, in_degree, n_falls].
RECURSIVE Visit(_, _)
Visit(next_nodes, st) ==
    IF next_nodes = <<>> THEN st
    ELSE LET next_node == Head(next_nodes)
             d == st.in_degree[next_node] - 1
             dec == [st EXCEPT !.in_degree[next_node] = d]
         IN  Visit(Tail(next_nodes),
                   IF d = 0
                   THEN [dec EXCEPT !.n_falls = @ + 1,
                                    !.stack = Append(@, next_node)]
                   ELSE dec)

\* while len(zero_in_degree_nodes) > 0: pop from the end of the list.
RECURSIVE Cascade(_, _)
Cascade(graph, st) ==
    IF st.stack = <<>> THEN st.n_falls
    ELSE LET node == st.stack[Len(st.stack)]
             popped == [st EXCEPT !.stack = SubSeq(@, 1, Len(@) - 1)]
         IN  Cascade(graph, Visit(GraphGet(graph, node), popped))

n_falls(graph, nodes, removed_node) ==
    Cascade(graph, [stack |-> <<removed_node>>,
                    in_degree |-> InDegree(graph, nodes),
                    n_falls |-> 0])

RECURSIVE SumFalls(_, _, _)
SumFalls(graph, nodes, removed) ==
    IF removed = {} THEN 0
    ELSE LET r == CHOOSE r \in removed : TRUE
         IN  n_falls(graph, nodes, r) + SumFalls(graph, nodes, removed \ {r})

part2(settled) ==
    LET graph == Graph(settled)
        nodes == {settled[i] : i \in DOMAIN settled}
    IN  SumFalls(graph, nodes, DOMAIN graph)

\* ------------------------------------------------------------------ inputs
Positions == {Position(x, y, z) : x \in 0..MaxX, y \in 0..MaxY, z \in 1..MaxZ}

\* A line segment: the two ends differ on at most one coordinate.
IsSegment(line) ==
    Cardinality({i \in 1..3 : line[1][i] # line[2][i]}) <= 1

Lines == {line \in Positions \X Positions : IsSegment(line)}

\* The cells a line's brick occupies.
Cells(line) ==
    {c \in (Min2(line[1][1], line[2][1])..Max2(line[1][1], line[2][1]))
           \X (Min2(line[1][2], line[2][2])..Max2(line[1][2], line[2][2]))
           \X (Min2(line[1][3], line[2][3])..Max2(line[1][3], line[2][3])) : TRUE}

WellFormed(t) ==
    /\ \A i \in DOMAIN t : IsSegment(t[i]) /\ t[i][1][3] >= 1 /\ t[i][2][3] >= 1
    /\ \A i, j \in DOMAIN t : i # j => Cells(t[i]) \cap Cells(t[j]) = {}

\* The well-formed texts of n lines over Lines.
RECURSIVE InputsOfLen(_)
InputsOfLen(n) ==
    IF n = 0 THEN {<<>>}
    ELSE {t \in {Append(u, l) : u \in InputsOfLen(n - 1), l \in Lines} : WellFormed(t)}

\* The 7-brick example text.
Example ==
    << <<Position(1, 0, 1), Position(1, 2, 1)>>,
       <<Position(0, 0, 2), Position(2, 0, 2)>>,
       <<Position(0, 2, 3), Position(2, 2, 3)>>,
       <<Position(0, 0, 4), Position(0, 2, 4)>>,
       <<Position(2, 0, 5), Position(2, 2, 5)>>,
       <<Position(0, 1, 6), Position(2, 1, 6)>>,
       <<Position(1, 1, 8), Position(1, 1, 9)>> >>

Inputs == {Example} \cup UNION {InputsOfLen(n) : n \in 0..MaxBricks}

\* Every way to list the elements of a sequence.
Listings(seq) ==
    {[i \in DOMAIN seq |-> seq[f[i]]] :
        f \in {g \in [DOMAIN seq -> DOMAIN seq] : \A i, j \in DOMAIN seq : i # j => g[i] # g[j]}}

\* --------------------------------------------------------------- the run
Init ==
    /\ text \in Inputs
    /\ pc = "start"
    /\ queue = <<>>
    /\ parsed = None
    /\ distance = 0
    /\ brick = None
    /\ settled_bricks = <<>>
    /\ answer1 = -1
    /\ answer2 = -1
    /\ relisted = <<>>
    /\ resettled = <<>>
    /\ a_line = None
    /\ a_brick = None
    /\ a_other = None
    /\ hits = <<>>

\* bricks = [Brick.from_str(line) ...]; sorted(bricks, key=...)
Parse ==
    /\ pc = "start"
    /\ queue' = SortedByZMin([i \in DOMAIN text |-> from_str(text[i])])
    /\ pc' = "for"
    /\ UNCHANGED <<text, parsed, distance, brick, settled_bricks, answer1, answer2,
                   relisted, resettled, brick_vars>>

\* The next brick of the for loop and its jump: brick.move_down(distance).
Jump ==
    /\ pc = "for"
    /\ queue # <<>>
    /\ parsed' = Head(queue)
    /\ queue' = Tail(queue)
    /\ distance' = Distance(Head(queue), settled_bricks)
    /\ brick' = move_down(Head(queue), Distance(Head(queue), settled_bricks))
    /\ pc' = IF brick' = None THEN "error" ELSE "while"
    /\ UNCHANGED <<text, settled_bricks, answer1, answer2, relisted, resettled, brick_vars>>

\* One iteration of the while loop: brick = down_brick.
StepDown ==
    /\ pc = "while"
    /\ CanStepDown(brick, settled_bricks)
    /\ brick' = move_down(brick, 1)
    /\ UNCHANGED <<text, pc, queue, parsed, distance, settled_bricks, answer1, answer2,
                   relisted, resettled, brick_vars>>

\* The while loop ends: settled_bricks.append(brick).
Settle ==
    /\ pc = "while"
    /\ ~CanStepDown(brick, settled_bricks)
    /\ settled_bricks' = Append(settled_bricks, brick)
    /\ pc' = "for"
    /\ UNCHANGED <<text, queue, parsed, distance, brick, answer1, answer2,
                   relisted, resettled, brick_vars>>

\* get_settled_bricks has returned to part1, which counts.
Part1 ==
    /\ pc = "for"
    /\ queue = <<>>
    /\ answer1' = part1(settled_bricks)
    /\ pc' = "part1"
    /\ UNCHANGED <<text, queue, parsed, distance, brick, settled_bricks, answer2,
                   relisted, resettled, brick_vars>>

Part2 ==
    /\ pc = "part1"
    /\ answer2' = part2(settled_bricks)
    /\ pc' = "done"
    /\ UNCHANGED <<text, queue, parsed, distance, brick, settled_bricks, answer1,
                   relisted, resettled, brick_vars>>

\* get_settled_bricks run again, on the returned bricks listed in some order.
Resettle ==
    /\ pc = "done"
    /\ \E listing \in Listings(settled_bricks) :
          /\ relisted' = listing
          /\ resettled' = get_settled_bricks(listing)
    /\ pc' = "resettled"
    /\ UNCHANGED <<text, queue, parsed, distance, brick, settled_bricks, answer1, answer2,
                   brick_vars>>

Next == Parse \/ Jump \/ StepDown \/ Settle \/ Part1 \/ Part2 \/ Resettle

Spec == Init /\ [][Next]_vars

\* ------------------------------------------------- one Brick and its methods
\* Any two Positions: what a line may hold and what the constructor accepts.
AnyLines == Positions \X Positions

InitBrick ==
    /\ a_line \in AnyLines
    /\ a_brick = None
    /\ a_other = None
    /\ hits = <<>>
    /\ text = <<>>
    /\ pc = "brick"
    /\ queue = <<>>
    /\ parsed = None
    /\ distance = 0
    /\ brick = None
    /\ settled_bricks = <<>>
    /\ answer1 = -1
    /\ answer2 = -1
    /\ relisted = <<>>
    /\ resettled = <<>>

\* Brick.from_str on the line.
BrickFromStr ==
    /\ pc = "brick"
    /\ a_brick' = from_str(a_line)
    /\ pc' = "from_str"
    /\ UNCHANGED <<a_line, a_other, hits, text, queue, parsed, distance, brick,
                   settled_bricks, answer1, answer2, relisted, resettled>>

\* The dataclass constructor on the two Positions as given: Brick(start, end).
BrickNew ==
    /\ pc = "brick"
    /\ a_brick' = Brick(a_line[1], a_line[2])
    /\ pc' = "constructed"
    /\ UNCHANGED <<a_line, a_other, hits, text, queue, parsed, distance, brick,
                   settled_bricks, answer1, answer2, relisted, resettled>>

BrickMoveDown ==
    /\ a_brick # None
    /\ hits = <<>>
    /\ \E n \in 1..MaxZ :
          /\ move_down(a_brick, n) # None
          /\ a_brick' = move_down(a_brick, n)
    /\ UNCHANGED <<a_line, a_other, hits, run_vars>>

BrickIntersects ==
    /\ a_brick # None
    /\ hits = <<>>
    /\ \E o \in AnyLines :
          /\ a_other' = Brick(o[1], o[2])
          /\ hits' = <<intersects(a_brick, a_other'), intersects(a_other', a_brick)>>
    /\ UNCHANGED <<a_line, a_brick, run_vars>>

NextBrick == BrickFromStr \/ BrickNew \/ BrickMoveDown \/ BrickIntersects

SpecBrick == InitBrick /\ [][NextBrick]_vars

\* ------------------------------------------------------------------ claims
Returned == pc \in {"part1", "done", "resettled"}

Answered == pc \in {"done", "resettled"}

\* C1: on the 7-brick example part1 returns 5 and part2 returns 7.
C1_ExampleAnswers ==
    text = Example =>
        /\ Returned => answer1 = 5
        /\ Answered => answer2 = 7

C1_Witness == text = Example /\ pc = "done" /\ answer1 = 5 /\ answer2 = 7

\* The indices of the settled bricks that the brick at index i, moved down
\* by 1, intersects: the supporters of that brick.
Supporters(i) ==
    {k \in DOMAIN settled_bricks \ {i} :
        /\ z_min(settled_bricks[i]) > 1
        /\ intersects(move_down(settled_bricks[i], 1), settled_bricks[k])}

\* C2: whenever a brick has been appended, no two distinct settled bricks
\* intersect, and every settled brick is on the floor (z_min = 1) or, moved
\* down by 1, intersects another settled brick.
C2_SettledStable ==
    /\ \A i, j \in DOMAIN settled_bricks :
          i # j => ~intersects(settled_bricks[i], settled_bricks[j])
    /\ \A i \in DOMAIN settled_bricks :
          z_min(settled_bricks[i]) = 1 \/ Supporters(i) # {}

\* A brick that fell from its parsed position now rests on another one, and
\* a third brick has been appended after it.
C2_Witness ==
    /\ Len(settled_bricks) >= 3
    /\ \E i \in DOMAIN settled_bricks :
          /\ i < Len(settled_bricks)
          /\ z_min(settled_bricks[i]) > 1
          /\ Supporters(i) # {}
          /\ \A l \in DOMAIN text : from_str(text[l]) # settled_bricks[i]

\* C3: part1 returns the number of settled bricks that are the only
\* supporter of no other settled brick, which is the number of settled bricks
\* minus the number of bricks that are the only supporter of some brick.
C3_Part1Counts ==
    Returned =>
        /\ answer1 = Cardinality({b \in DOMAIN settled_bricks :
                                    ~\E i \in DOMAIN settled_bricks \ {b} : Supporters(i) = {b}})
        /\ answer1 = Len(settled_bricks)
                      - Cardinality({b \in DOMAIN settled_bricks :
                                       \E i \in DOMAIN settled_bricks : Supporters(i) = {b}})

\* part1 has returned less than the number of bricks, and some brick with two
\* supporters made neither of them critical.
C3_Witness ==
    /\ Returned
    /\ answer1 < Len(settled_bricks)
    /\ answer1 > 0
    /\ \E i \in DOMAIN settled_bricks : Cardinality(Supporters(i)) = 2

\* The bricks that fall when the brick at index r is removed: the least set
\* that holds r and every brick off the floor whose supporters are all in it.
RECURSIVE FallenFrom(_)
FallenFrom(F) ==
    LET more == {i \in DOMAIN settled_bricks :
                   z_min(settled_bricks[i]) > 1 /\ Supporters(i) \subseteq F}
    IN  IF more \subseteq F THEN F ELSE FallenFrom(F \cup more)

RECURSIVE SumOver(_, _)
SumOver(f, S) ==
    IF S = {} THEN 0
    ELSE LET x == CHOOSE x \in S : TRUE IN f[x] + SumOver(f, S \ {x})

\* C4: part2 returns the sum, over every settled brick r, of the number of
\* other bricks in the least set closed under "all supporters have fallen"
\* that holds r.
C4_Part2Sums ==
    Answered =>
        answer2 = SumOver([r \in DOMAIN settled_bricks |-> Cardinality(FallenFrom({r})) - 1],
                          DOMAIN settled_bricks)

\* A brick with two supporters stays when one of them is removed alone, and
\* some other removal makes a brick fall.
C4_Witness ==
    /\ Answered
    /\ answer2 > 0
    /\ \E i \in DOMAIN settled_bricks :
          /\ Cardinality(Supporters(i)) = 2
          /\ \E r \in Supporters(i) : i \notin FallenFrom({r})

\* The index of a brick in a list that holds it once.
IndexIn(list, b) == CHOOSE i \in DOMAIN list : list[i] = b

Bricks(list) == {list[i] : i \in DOMAIN list}

\* C5 as stated: settling the returned list again, as returned, gives the
\* same ordered sequence.
C5_SameSequence ==
    (pc = "resettled" /\ relisted = settled_bricks) => resettled = settled_bricks

\* C5 as amended: settling the returned list again gives the same bricks at
\* the same positions, listed by ascending z_min with equal z_min in the
\* order of the returned list; so it gives the same sequence exactly when the
\* returned list is already ascending in z_min.
C5_SameBricksByZMin ==
    (pc = "resettled" /\ relisted = settled_bricks) =>
        /\ Len(resettled) = Len(settled_bricks)
        /\ Bricks(resettled) = Bricks(settled_bricks)
        /\ \A i, j \in DOMAIN resettled :
              i < j =>
                 \/ z_min(resettled[i]) < z_min(resettled[j])
                 \/ /\ z_min(resettled[i]) = z_min(resettled[j])
                    /\ IndexIn(settled_bricks, resettled[i]) < IndexIn(settled_bricks, resettled[j])
        /\ (resettled = settled_bricks) <=>
              \A i, j \in DOMAIN settled_bricks :
                  i < j => z_min(settled_bricks[i]) <= z_min(settled_bricks[j])

\* The returned list was settled again as returned, and a brick that rests
\* above a later one has changed place in the list.
C5_Witness ==
    /\ pc = "resettled"
    /\ relisted = settled_bricks
    /\ resettled # settled_bricks
    /\ Bricks(resettled) = Bricks(settled_bricks)

\* C10: settling the returned bricks again, listed in any order, leaves
\* every brick where it was.
C10_SamePositions ==
    pc = "resettled" =>
        /\ Len(resettled) = Len(settled_bricks)
        /\ Bricks(resettled) = Bricks(settled_bricks)

\* A stack of bricks was listed top first and settled again.
C10_Witness ==
    /\ pc = "resettled"
    /\ relisted # settled_bricks
    /\ Len(relisted) >= 3
    /\ Supporters(IndexIn(settled_bricks, relisted[1])) # {}
    /\ Bricks(resettled) = Bricks(settled_bricks)

\* The procedure of C7: no jump, each brick steps down by 1 from its parsed
\* position while the lower position exists and intersects no settled brick.
RECURSIVE StepOnly(_, _)
StepOnly(b, settled) ==
    IF z_min(b) > 1
       /\ \A k \in DOMAIN settled : ~intersects(move_down(b, 1), settled[k])
    THEN StepOnly(move_down(b, 1), settled)
    ELSE b

RECURSIVE SettleStepOnly(_, _)
SettleStepOnly(bricks, settled) ==
    IF bricks = <<>> THEN settled
    ELSE SettleStepOnly(Tail(bricks), Append(settled, StepOnly(Head(bricks), settled)))

\* C7: the returned list equals the list of the procedure without the jump.
C7_JumpChangesNothing ==
    Returned =>
        settled_bricks =
            SettleStepOnly(SortedByZMin([i \in DOMAIN text |-> from_str(text[i])]), <<>>)

\* A brick was raised by the jump (it lies beside a taller settled brick) and
\* the list has been returned.
C7_Witness ==
    /\ Returned
    /\ distance < -1
    /\ Len(settled_bricks) >= 2

\* max(z_max of the settled bricks, or 1 if none).
TopOf(settled) ==
    IF settled = <<>> THEN 1
    ELSE CHOOSE m \in {z_max(settled[k]) : k \in DOMAIN settled} :
            \A k \in DOMAIN settled : z_max(settled[k]) <= m

\* C9 as stated: the distance of the jump is never negative.
C9_DistanceNonNegative == pc = "while" => distance >= 0

\* C9 as amended: the distance is at least -M, for M the max z_max of the
\* settled bricks (1 if none), and the jump puts the brick at z_min = M + 1;
\* the brick is raised exactly when its parsed z_min is at most M.
C9_DistanceAtLeastMinusTop ==
    pc = "while" =>
        /\ distance >= -TopOf(settled_bricks)
        /\ z_min(parsed) - distance = TopOf(settled_bricks) + 1
        /\ (distance < 0) <=> (z_min(parsed) <= TopOf(settled_bricks))

\* The first brick, parsed on the floor, was raised by 1.
C9_Witness ==
    /\ pc = "while"
    /\ settled_bricks = <<>>
    /\ z_min(parsed) = 1
    /\ distance = -1
    /\ z_min(brick) = 2

\* C6: intersects gives the same answer with its two bricks exchanged.
C6_Symmetric == hits # <<>> => hits[1] = hits[2]

\* Two different bricks longer than one cell that intersect, asked both
\* ways, the second one with its ends in descending order.
C6_Witness ==
    /\ hits = <<TRUE, TRUE>>
    /\ a_brick # a_other
    /\ a_brick[1] # a_brick[2]
    /\ PositionLess(a_other[2], a_other[1])

Normalised(b) == \A i \in 1..3 : b[1][i] <= b[2][i]

\* C8 as stated: every brick from_str makes of a parsed line, and every
\* brick move_down makes of it, has start <= end on each coordinate.
C8_StartBelowEnd == pc = "from_str" => Normalised(a_brick)

\* C8 as amended: the same, for the lines whose two ends differ on at most
\* one coordinate.
C8_SegmentStartBelowEnd == (pc = "from_str" /\ IsSegment(a_line)) => Normalised(a_brick)

\* A segment written end first was parsed and moved down.
C8_Witness ==
    /\ pc = "from_str"
    /\ IsSegment(a_line)
    /\ PositionLess(a_line[2], a_line[1])
    /\ a_brick[1][3] < a_line[2][3]
    /\ Normalised(a_brick)

====
